---- MODULE Spec2Model ----
(***************************************************************************)
(* Preeti-to-Unicode transliteration engine.                               *)
(*                                                                         *)
(* Text is a sequence of Unicode code points (Python's ord of each         *)
(* character), so 'k' is 107, ']' is 93, 'l' is 108 and the Devanagari     *)
(* letter PA is 2346.  A Python str is a sequence of such numbers; the     *)
(* empty str is << >>.  Python indices are 0-based: At(s, i) is s[i].      *)
(***************************************************************************)
EXTENDS Integers, Sequences, FiniteSets, TLC

\* ---------------------------------------------------------------------
\* Bounds of the model
\* ---------------------------------------------------------------------
\* Longest input text drawn over Alphabet.
MaxLen == 3
\* Longest text handed to a FontMapping built from RuleUniverse.
MaxScanLen == 2
\* Most rules in the list handed to the FontMapping constructor.
MaxCtorRules == 2
\* Most rules a FontMapping holds after add_rule calls.
MaxRules == 3

\* ---------------------------------------------------------------------
\* Python str helpers
\* ---------------------------------------------------------------------
At(s, i) == s[i + 1]

\* s[i:j] for 0 <= i, clamped like a Python slice
Slice(s, i, j) ==
    LET hi == IF j > Len(s) THEN Len(s) ELSE j
    IN  IF i >= hi THEN << >> ELSE SubSeq(s, i + 1, hi)

\* s.startswith(p) / s.endswith(p)
StartsWith(s, p) == Len(p) <= Len(s) /\ SubSeq(s, 1, Len(p)) = p
EndsWith(s, p) == Len(p) <= Len(s) /\ SubSeq(s, Len(s) - Len(p) + 1, Len(s)) = p

RECURSIVE ReplaceFrom(_, _, _, _)
ReplaceFrom(s, old, new, i) ==
    IF i >= Len(s) THEN << >>
    ELSE IF Slice(s, i, i + Len(old)) = old
         THEN new \o ReplaceFrom(s, old, new, i + Len(old))
         ELSE << At(s, i) >> \o ReplaceFrom(s, old, new, i + 1)

\* str.replace(old, new) for a non-empty old: one left-to-right pass that
\* replaces every non-overlapping occurrence.
Replace(s, old, new) == ReplaceFrom(s, old, new, 0)

RECURSIVE Flatten(_)
Flatten(ss) == IF ss = << >> THEN << >> ELSE Head(ss) \o Flatten(Tail(ss))

\* ---------------------------------------------------------------------
\* converter.py: PreetiUnicodeConverter._setup_mappings
\* ---------------------------------------------------------------------
unicode_a_to_z ==
    << <<2348>>, <<2342>>, <<2309>>, <<2350>>, <<2349>>,
       <<2366>>, <<2344>>, <<2332>>, <<2359, 2381>>, <<2357>>,
       <<2346>>, <<2367>>, <<2347>>, <<2354>>, <<2351>>,
       <<2313>>, <<2340, 2381, 2352>>, <<2330>>, <<2325>>, <<2340>>,
       <<2327>>, <<2326>>, <<2343>>, <<2361>>, <<2341>>,
       <<2358>> >>

unicode_A_to_Z ==
    << <<2348, 2381>>, <<2343>>, <<2315>>, <<2350, 2381>>, <<2349, 2381>>,
       <<2305>>, <<2344, 2381>>, <<2332, 2381>>, <<2325, 2381, 2359, 2381>>, <<2357, 2381>>,
       <<2346, 2381>>, <<2368>>, <<2307>>, <<2354, 2381>>, <<2311>>,
       <<2319>>, <<2340, 2381, 2340>>, <<2330, 2381>>, <<2325, 2381>>, <<2340, 2381>>,
       <<2327, 2381>>, <<2326, 2381>>, <<2343, 2381>>, <<2361, 2381>>, <<2341, 2381>>,
       <<2358, 2381>> >>

\* The digit table with the digit 1 left as it is
unicode_0_to_9_keep_one ==
    << <<2339, 2381>>, <<49>>, <<2342, 2381, 2342>>, <<2328>>, <<2342, 2381, 2343>>,
       <<2331>>, <<2335>>, <<2336>>, <<2337>>, <<2338>> >>

unicode_0_to_9 ==
    << <<2339, 2381>>, <<2332, 2381, 2334>>, <<2342, 2381, 2342>>, <<2328>>, <<2342, 2381, 2343>>,
       <<2331>>, <<2335>>, <<2336>>, <<2337>>, <<2338>> >>

symbols_dict ==
    126 :> <<2334, 2381>> @@ 96 :> <<2334>> @@ 33 :> <<2407>> @@ 64 :> <<2408>> @@
    35 :> <<2409>> @@ 36 :> <<2410>> @@ 37 :> <<2411>> @@ 94 :> <<2412>> @@
    38 :> <<2413>> @@ 42 :> <<2414>> @@ 40 :> <<2415>> @@ 41 :> <<2406>> @@
    45 :> <<40>> @@ 95 :> <<41>> @@ 43 :> <<2306>> @@ 91 :> <<2371>> @@
    123 :> <<2352, 2381>> @@ 93 :> <<2375>> @@ 125 :> <<2376>> @@ 92 :> <<2381>> @@
    124 :> <<2381, 2352>> @@ 59 :> <<2360>> @@ 58 :> <<2360, 2381>> @@ 39 :> <<2369>> @@
    34 :> <<2370>> @@ 44 :> <<44>> @@ 60 :> <<63>> @@ 46 :> <<2404>> @@
    62 :> <<2358, 2381, 2352>> @@ 47 :> <<2352>> @@ 63 :> <<2352, 2369>> @@ 61 :> <<46>> @@
    710 :> <<2347, 2381>> @@ 206 :> <<2329, 2381, 2326>> @@ 229 :> <<2342, 2381, 2357>> @@ 247 :> <<47>> @@
    171 :> <<2381, 2352>> @@ 187 :> <<2381, 2352>> @@ 176 :> <<2381, 2352>> @@ 191 :> <<2381, 2352>> @@
    161 :> <<2381, 2352>>

nepali_numerals ==
    48 :> <<2406>> @@ 49 :> <<2407>> @@ 50 :> <<2408>> @@ 51 :> <<2409>> @@
    52 :> <<2410>> @@ 53 :> <<2411>> @@ 54 :> <<2412>> @@ 55 :> <<2413>> @@
    56 :> <<2414>> @@ 57 :> <<2415>>

\* The converter object as __init__ leaves it: the class tables and the
\* numeral table are its only fields.
PreetiUnicodeConverter ==
    [ unicode_a_to_z  |-> unicode_a_to_z,
      unicode_A_to_Z  |-> unicode_A_to_Z,
      unicode_0_to_9  |-> unicode_0_to_9,
      symbols_dict    |-> symbols_dict,
      nepali_numerals |-> nepali_numerals ]

\* ---------------------------------------------------------------------
\* converter.py: PreetiUnicodeConverter.normalize_preeti
\* ---------------------------------------------------------------------
\* The chained str.replace calls, in call order: qm, f], km, 0f, If, if, cf.
LiteralSubstitutions ==
    << << <<113, 109>>, <<115, 124>> >>,
       << <<102, 93>>,  <<2379>> >>,
       << <<107, 109>>, <<2347>> >>,
       << <<48, 102>>,  <<2339>> >>,
       << <<73, 102>>,  <<2325, 2381, 2359>> >>,
       << <<105, 102>>, <<2359>> >>,
       << <<99, 102>>,  <<2310>> >> >>

RECURSIVE ApplyReplacements(_, _)
ApplyReplacements(s, subs) ==
    IF subs = << >> THEN s
    ELSE ApplyReplacements(Replace(s, Head(subs)[1], Head(subs)[2]), Tail(subs))

PreSubstitute(preeti_text) == ApplyReplacements(preeti_text, LiteralSubstitutions)

\* The character that is held back and emitted after the next character: 'l'.
IsPreBaseBracket(character) == character = 93
IsPreBase(character) == character = 108

\* The locals of normalize_preeti on entering the while loop.
NormalizeEntry == [index |-> -1, normalized |-> << >>, previous_symbol |-> << >>]

\* The default branch with the pending marker emitted before the character
DefaultBranchMarkerFirst(st, index, character) ==
    IF IsPreBase(character)
    THEN [index |-> index, normalized |-> st.normalized, previous_symbol |-> <<108>>]
    ELSE [index |-> index,
          normalized |-> st.normalized \o st.previous_symbol \o <<character>>,
          previous_symbol |-> << >>]

\* if character == 'l': ... else: normalized += character + previous_symbol
DefaultBranch(st, index, character) ==
    IF IsPreBase(character)
    THEN [index |-> index, normalized |-> st.normalized, previous_symbol |-> <<108>>]
    ELSE [index |-> index,
          normalized |-> st.normalized \o <<character>> \o st.previous_symbol,
          previous_symbol |-> << >>]

\* The loop body with the hoisted '{' left in the text: a hoist moves the
\* cursor on by one position less, to the '{' it has emitted.
NormalizeStepRescan(text, st) ==
    LET index == st.index + 1
        character == At(text, index)
    IN  IF /\ index + 2 < Len(text)
           /\ At(text, index + 2) = 123
           /\ At(text, index + 1) \in {102, 2379}
        THEN [index |-> index + 1,
              normalized |-> st.normalized \o <<123, character, At(text, index + 1)>>,
              previous_symbol |-> st.previous_symbol]
        ELSE IF /\ index + 1 < Len(text)
                /\ At(text, index + 1) = 123
                /\ character # 102
        THEN [index |-> index,
              normalized |-> st.normalized \o <<123, character>>,
              previous_symbol |-> st.previous_symbol]
        ELSE DefaultBranch(st, index, character)

\* One iteration of the while loop over the pre-substituted text; the guards
\* index + 2 < len(text) and index + 1 < len(text) keep every read in range,
\* so the except IndexError branch is never taken.
NormalizeStep(text, st) ==
    LET index == st.index + 1
        character == At(text, index)
    IN  IF /\ index + 2 < Len(text)
           /\ At(text, index + 2) = 123
           /\ At(text, index + 1) \in {102, 2379}
        THEN [index |-> index + 2,
              normalized |-> st.normalized \o <<123, character, At(text, index + 1)>>,
              previous_symbol |-> st.previous_symbol]
        ELSE IF /\ index + 1 < Len(text)
                /\ At(text, index + 1) = 123
                /\ character # 102
        THEN [index |-> index + 1,
              normalized |-> st.normalized \o <<123, character>>,
              previous_symbol |-> st.previous_symbol]
        ELSE DefaultBranch(st, index, character)

RECURSIVE NormalizeLoop(_, _)
NormalizeLoop(text, st) ==
    IF st.index + 1 < Len(text)
    THEN NormalizeLoop(text, NormalizeStep(text, st))
    ELSE st

\* normalize_preeti with the marker still pending at the end of the text
\* appended to the output instead of discarded.
normalize_preeti_keep_trailing(preeti_text) ==
    IF preeti_text = << >> THEN << >>
    ELSE LET st == NormalizeLoop(PreSubstitute(preeti_text), NormalizeEntry)
         IN  st.normalized \o st.previous_symbol

normalize_preeti(preeti_text) ==
    IF preeti_text = << >> THEN << >>
    ELSE NormalizeLoop(PreSubstitute(preeti_text), NormalizeEntry).normalized

\* ---------------------------------------------------------------------
\* converter.py: convert_to_unicode, convert_numbers_to_nepali, convert_text
\* ---------------------------------------------------------------------
\* The loop body with a character no table knows dropped instead of kept.
ConvertCharDropUnknown(self, character) ==
    IF 97 <= character /\ character <= 122
    THEN self.unicode_a_to_z[character - 97 + 1]
    ELSE IF 65 <= character /\ character <= 90
    THEN self.unicode_A_to_Z[character - 65 + 1]
    ELSE IF 48 <= character /\ character <= 57
    THEN self.unicode_0_to_9[character - 48 + 1]
    ELSE IF character \in DOMAIN self.symbols_dict
    THEN self.symbols_dict[character]
    ELSE << >>

\* The loop body with the digit branch missing: digits fall to the symbol
\* lookup and pass through.
ConvertCharKeepDigits(self, character) ==
    IF 97 <= character /\ character <= 122
    THEN self.unicode_a_to_z[character - 97 + 1]
    ELSE IF 65 <= character /\ character <= 90
    THEN self.unicode_A_to_Z[character - 65 + 1]
    ELSE IF character \in DOMAIN self.symbols_dict
    THEN self.symbols_dict[character]
    ELSE <<character>>

\* The loop body with capital letters looked up in the table of the small
\* letters.
ConvertCharCaseFolded(self, character) ==
    IF 97 <= character /\ character <= 122
    THEN self.unicode_a_to_z[character - 97 + 1]
    ELSE IF 65 <= character /\ character <= 90
    THEN self.unicode_a_to_z[character - 65 + 1]
    ELSE IF 48 <= character /\ character <= 57
    THEN self.unicode_0_to_9[character - 48 + 1]
    ELSE IF character \in DOMAIN self.symbols_dict
    THEN self.symbols_dict[character]
    ELSE <<character>>

\* The body of the for loop of convert_to_unicode: char_code = ord(character),
\* which is the character itself here.  The list indices are always in range.
ConvertChar(self, character) ==
    IF 97 <= character /\ character <= 122
    THEN self.unicode_a_to_z[character - 97 + 1]
    ELSE IF 65 <= character /\ character <= 90
    THEN self.unicode_A_to_Z[character - 65 + 1]
    ELSE IF 48 <= character /\ character <= 57
    THEN self.unicode_0_to_9[character - 48 + 1]
    ELSE IF character \in DOMAIN self.symbols_dict
    THEN self.symbols_dict[character]
    ELSE <<character>>

convert_to_unicode(self, preeti_text) ==
    IF preeti_text = << >> THEN << >>
    ELSE LET normalized_preeti == normalize_preeti(preeti_text)
         IN  Flatten([i \in 1..Len(normalized_preeti) |->
                         ConvertChar(self, normalized_preeti[i])])

\* The lookup with every character, digits too, left as it is.
NumeralCharAscii(self, char) == <<char>>

\* self.nepali_numerals.get(char, char)
NumeralChar(self, char) ==
    IF char \in DOMAIN self.nepali_numerals
    THEN self.nepali_numerals[char]
    ELSE <<char>>

convert_numbers_to_nepali(self, text) ==
    IF text = << >> THEN << >>
    ELSE Flatten([i \in 1..Len(text) |-> NumeralChar(self, text[i])])

\* The module-level convert_text run alone on the converter self.
convert_text(self, text, convert_numbers) ==
    IF text = << >> THEN << >>
    ELSE LET unicode_text == convert_to_unicode(self, text)
         IN  IF convert_numbers
             THEN convert_numbers_to_nepali(self, unicode_text)
             ELSE unicode_text

\* ---------------------------------------------------------------------
\* fonts/font_manager.py: FontRule
\* ---------------------------------------------------------------------
\* A FontRule object.  mapping_type is the MappingType member's value; a
\* context of None and a context of '' are both << >>, which is how every
\* use of them in the code (a truth test) treats them.
FontRule(source, target, mapping_type, priority, context_before, context_after) ==
    [ source |-> source, target |-> target, mapping_type |-> mapping_type,
      priority |-> priority, context_before |-> context_before,
      context_after |-> context_after ]

Max(a, b) == IF a >= b THEN a ELSE b
Min(a, b) == IF a <= b THEN a ELSE b

matches_context(rule, text, position) ==
    /\ rule.context_before # << >> =>
          LET start_pos == Max(0, position - Len(rule.context_before))
              before_text == Slice(text, start_pos, position)
          IN  EndsWith(before_text, rule.context_before)
    /\ rule.context_after # << >> =>
          LET end_pos == Min(Len(text),
                             position + Len(rule.source) + Len(rule.context_after))
              after_text == Slice(text, position + Len(rule.source), end_pos)
          IN  StartsWith(after_text, rule.context_after)

\* re.compile(source) for the pattern sources of the model, which are made
\* of letters and of '(' alone: an unclosed '(' is the one thing that makes
\* re.compile raise re.error, and a source of letters matches itself.
RegexCompiles(source) == \A i \in 1..Len(source) : source[i] # 40

\* apply with the cursor moved on by the length of the source instead of
\* the length of the target
applyAdvanceBySource(rule, text, position) ==
    IF rule.mapping_type = "character"
    THEN [ text |-> Slice(text, 0, position) \o rule.target
                      \o Slice(text, position + Len(rule.source), Len(text)),
           position |-> position + Len(rule.source),
           raised |-> FALSE ]
    ELSE IF rule.mapping_type = "pattern"
    THEN IF RegexCompiles(rule.source)
         THEN [ text |-> Slice(text, 0, position) \o rule.target
                           \o Slice(text, position + Len(rule.source), Len(text)),
                position |-> position + Len(rule.source),
                raised |-> FALSE ]
         ELSE [ text |-> text, position |-> position, raised |-> TRUE ]
    ELSE [ text |-> text, position |-> position + 1, raised |-> FALSE ]

\* FontRule.apply: the new text, the new position, and whether the call
\* raised.  It is only called where text[position:] starts with the source,
\* so a compiled pattern of letters matches and ends at position+len(source).
apply(rule, text, position) ==
    IF rule.mapping_type = "character"
    THEN [ text |-> Slice(text, 0, position) \o rule.target
                      \o Slice(text, position + Len(rule.source), Len(text)),
           position |-> position + Len(rule.target),
           raised |-> FALSE ]
    ELSE IF rule.mapping_type = "pattern"
    THEN IF RegexCompiles(rule.source)
         THEN [ text |-> Slice(text, 0, position) \o rule.target
                           \o Slice(text, position + Len(rule.source), Len(text)),
                position |-> position + Len(rule.target),
                raised |-> FALSE ]
         ELSE [ text |-> text, position |-> position, raised |-> TRUE ]
    ELSE [ text |-> text, position |-> position + 1, raised |-> FALSE ]

\* ---------------------------------------------------------------------
\* fonts/font_manager.py: FontMapping
\* ---------------------------------------------------------------------
\* list.sort(key=lambda r: r.priority, reverse=True): a stable sort, so rules
\* of equal priority keep the order they had.
\* The list left in the order it was given in (no sort).
SortByPriorityNone(rules) == rules

\* The priorities that occur in the list
Priorities(rules) == {rules[i].priority : i \in 1..Len(rules)}

\* The list back to front
Reverse(s) == [i \in 1..Len(s) |-> s[Len(s) + 1 - i]]

\* The rules whose priority is in ps, highest priority first, those of one
\* priority in the opposite of the order they have in the list.
RECURSIVE SortBucketsReversed(_, _)
SortBucketsReversed(rules, ps) ==
    IF ps = {} THEN << >>
    ELSE LET p == CHOOSE x \in ps : \A y \in ps : y <= x
         IN  SelectSeq(Reverse(rules), LAMBDA r : r.priority = p)
                 \o SortBucketsReversed(rules, ps \ {p})

\* The rules whose priority is in ps, highest priority first, those of one
\* priority in the order they have in the list
RECURSIVE SortBuckets(_, _)
SortBuckets(rules, ps) ==
    IF ps = {} THEN << >>
    ELSE LET p == CHOOSE x \in ps : \A y \in ps : y <= x
         IN  SelectSeq(rules, LAMBDA r : r.priority = p)
                 \o SortBuckets(rules, ps \ {p})

SortByPriority(rules) == SortBuckets(rules, Priorities(rules))

\* __post_init__ on the list handed to the constructor
post_init(rules) == SortByPriority(rules)

\* add_rule: append, then sort again
add_rule(rules, rule) == SortByPriority(Append(rules, rule))

\* remove_rule: delete the first rule with that source and target, if any
remove_rule(rules, source, target) ==
    LET found == {i \in 1..Len(rules) :
                     rules[i].source = source /\ rules[i].target = target}
    IN  IF found = {} THEN rules
        ELSE LET i == CHOOSE k \in found : \A j \in found : k <= j
             IN  SubSeq(rules, 1, i - 1) \o SubSeq(rules, i + 1, Len(rules))

\* The condition of the for loop of convert_text for one rule
RuleMatches(rule, result, position) ==
    /\ position + Len(rule.source) <= Len(result)
    /\ Slice(result, position, position + Len(rule.source)) = rule.source
    /\ matches_context(rule, result, position)

\* One iteration of the while loop of convert_text: the first rule of the
\* list that matches is applied; with none, the position moves on by one.
ScanStep(rules, st) ==
    LET hits == {k \in 1..Len(rules) : RuleMatches(rules[k], st.result, st.position)}
    IN  IF hits = {}
        THEN [result |-> st.result, position |-> st.position + 1, raised |-> FALSE]
        ELSE LET first == CHOOSE k \in hits : \A j \in hits : k <= j
                 r == apply(rules[first], st.result, st.position)
             IN  [result |-> r.text, position |-> r.position, raised |-> r.raised]

RECURSIVE ScanLoop(_, _)
ScanLoop(rules, st) ==
    IF st.position < Len(st.result) /\ ~st.raised
    THEN ScanLoop(rules, ScanStep(rules, st))
    ELSE st

\* FontMapping.convert_text run to completion.  Only used with rule lists on
\* which the loop ends.
FontMapping_convert_text(rules, text) ==
    IF text = << >> THEN text
    ELSE ScanLoop(rules, [result |-> text, position |-> 0, raised |-> FALSE]).result

\* ---------------------------------------------------------------------
\* fonts/preeti_variants.py: the built-in variants
\* ---------------------------------------------------------------------
\* get_character_mappings of StandardPreetiMapping, in the dict's order
StandardCharacterMappings ==
    << << <<97>>, <<2348>> >>, << <<98>>, <<2342>> >>, << <<99>>, <<2309>> >>, << <<100>>, <<2350>> >>,
       << <<101>>, <<2349>> >>, << <<102>>, <<2366>> >>, << <<103>>, <<2344>> >>, << <<104>>, <<2332>> >>,
       << <<105>>, <<2359, 2381>> >>, << <<106>>, <<2357>> >>, << <<107>>, <<2346>> >>, << <<108>>, <<2367>> >>,
       << <<109>>, <<2347>> >>, << <<110>>, <<2354>> >>, << <<111>>, <<2351>> >>, << <<112>>, <<2313>> >>,
       << <<113>>, <<2340, 2381, 2352>> >>, << <<114>>, <<2330>> >>, << <<115>>, <<2325>> >>, << <<116>>, <<2340>> >>,
       << <<117>>, <<2327>> >>, << <<118>>, <<2326>> >>, << <<119>>, <<2343>> >>, << <<120>>, <<2361>> >>,
       << <<121>>, <<2341>> >>, << <<122>>, <<2358>> >>, << <<65>>, <<2348, 2381>> >>, << <<66>>, <<2343>> >>,
       << <<67>>, <<2315>> >>, << <<68>>, <<2350, 2381>> >>, << <<69>>, <<2349, 2381>> >>, << <<70>>, <<2305>> >>,
       << <<71>>, <<2344, 2381>> >>, << <<72>>, <<2332, 2381>> >>, << <<73>>, <<2325, 2381, 2359, 2381>> >>, << <<74>>, <<2357, 2381>> >>,
       << <<75>>, <<2346, 2381>> >>, << <<76>>, <<2368>> >>, << <<77>>, <<2307>> >>, << <<78>>, <<2354, 2381>> >>,
       << <<79>>, <<2311>> >>, << <<80>>, <<2319>> >>, << <<81>>, <<2340, 2381, 2340>> >>, << <<82>>, <<2330, 2381>> >>,
       << <<83>>, <<2325, 2381>> >>, << <<84>>, <<2340, 2381>> >>, << <<85>>, <<2327, 2381>> >>, << <<86>>, <<2326, 2381>> >>,
       << <<87>>, <<2343, 2381>> >>, << <<88>>, <<2361, 2381>> >>, << <<89>>, <<2341, 2381>> >>, << <<90>>, <<2358, 2381>> >>,
       << <<48>>, <<2339, 2381>> >>, << <<49>>, <<2332, 2381, 2334>> >>, << <<50>>, <<2342, 2381, 2342>> >>, << <<51>>, <<2328>> >>,
       << <<52>>, <<2342, 2381, 2343>> >>, << <<53>>, <<2331>> >>, << <<54>>, <<2335>> >>, << <<55>>, <<2336>> >>,
       << <<56>>, <<2337>> >>, << <<57>>, <<2338>> >>, << <<126>>, <<2334, 2381>> >>, << <<96>>, <<2334>> >>,
       << <<33>>, <<2407>> >>, << <<64>>, <<2408>> >>, << <<35>>, <<2409>> >>, << <<36>>, <<2410>> >>,
       << <<37>>, <<2411>> >>, << <<94>>, <<2412>> >>, << <<38>>, <<2413>> >>, << <<42>>, <<2414>> >>,
       << <<40>>, <<2415>> >>, << <<41>>, <<2406>> >>, << <<45>>, <<40>> >>, << <<95>>, <<41>> >>,
       << <<43>>, <<2306>> >>, << <<91>>, <<2371>> >>, << <<123>>, <<2352, 2381>> >>, << <<93>>, <<2375>> >>,
       << <<125>>, <<2376>> >>, << <<92>>, <<2381>> >>, << <<124>>, <<2381, 2352>> >>, << <<59>>, <<2360>> >>,
       << <<58>>, <<2360, 2381>> >>, << <<39>>, <<2369>> >>, << <<34>>, <<2370>> >>, << <<44>>, <<44>> >>,
       << <<60>>, <<63>> >>, << <<46>>, <<2404>> >>, << <<62>>, <<2358, 2381, 2352>> >>, << <<47>>, <<2352>> >>,
       << <<63>>, <<2352, 2369>> >>, << <<61>>, <<46>> >> >>

\* PreetiPlusMapping: the entries added to the standard ones
plus_mappings ==
    << << <<231>>, <<2365>> >>, << <<233>>, <<2384>> >>, << <<241>>, <<2321>> >>, << <<243>>, <<2322>> >>,
       << <<250>>, <<2400>> >>, << <<252>>, <<2401>> >> >>

\* KantipurMapping: the entries added to the standard ones
kantipur_overrides ==
    << << <<199>>, <<2365>> >>, << <<201>>, <<2384>> >>, << <<209>>, <<2321>> >>, << <<211>>, <<2322>> >>,
       << <<218>>, <<2400>> >>, << <<220>>, <<2401>> >> >>

\* dict.update: an existing key keeps its place and takes the new value, a
\* new key goes to the end.  Dicts are lists of <<key, value>> in insertion
\* order, the order create_mapping iterates them in.
DictSet(d, kv) ==
    IF \E i \in 1..Len(d) : d[i][1] = kv[1]
    THEN [i \in 1..Len(d) |-> IF d[i][1] = kv[1] THEN kv ELSE d[i]]
    ELSE Append(d, kv)

RECURSIVE DictUpdate(_, _)
DictUpdate(d, upd) ==
    IF upd = << >> THEN d ELSE DictUpdate(DictSet(d, Head(upd)), Tail(upd))

\* StandardPreetiMapping.get_special_rules
StandardSpecialRules ==
    << FontRule(<<113, 109>>, <<2360, 2381>>, "character", 10, << >>, << >>),
       FontRule(<<102, 93>>, <<2379>>, "character", 10, << >>, << >>),
       FontRule(<<107, 109>>, <<2347>>, "character", 10, << >>, << >>),
       FontRule(<<48, 102>>, <<2339>>, "character", 10, << >>, << >>),
       FontRule(<<73, 102>>, <<2325, 2381, 2359>>, "character", 10, << >>, << >>),
       FontRule(<<105, 102>>, <<2359>>, "character", 10, << >>, << >>),
       FontRule(<<99, 102>>, <<2310>>, "character", 10, << >>, << >>) >>

\* KantipurMapping.get_special_rules: the standard rules, then Qm at 15
KantipurSpecialRules ==
    StandardSpecialRules
      \o << FontRule(<<81, 109>>, <<2360, 2381>>, "character", 15, << >>, << >>) >>

\* get_character_mappings of the three classes
get_character_mappings(variant) ==
    IF variant = "preeti_plus" THEN DictUpdate(StandardCharacterMappings, plus_mappings)
    ELSE IF variant = "kantipur" THEN DictUpdate(StandardCharacterMappings, kantipur_overrides)
    ELSE StandardCharacterMappings

get_special_rules(variant) ==
    IF variant = "kantipur" THEN KantipurSpecialRules ELSE StandardSpecialRules

\* The list create_mapping hands to FontMapping: one priority-1 rule per
\* character mapping, then the special rules.
CreateMappingRuleList(variant) ==
    LET char_mappings == get_character_mappings(variant)
    IN  [i \in 1..Len(char_mappings) |->
            FontRule(char_mappings[i][1], char_mappings[i][2], "character", 1, << >>, << >>)]
        \o get_special_rules(variant)

\* The rules of the FontMapping create_mapping returns
create_mapping(variant) == post_init(CreateMappingRuleList(variant))

\* The three built-in rule lists, as _register_builtin_fonts builds them
StandardRules == create_mapping("standard_preeti")
PreetiPlusRules == create_mapping("preeti_plus")
KantipurRules == create_mapping("kantipur")

\* =====================================================================
\* State
\* =====================================================================
VARIABLES
    \* converter.py: the module-level _converter and one convert_text call on
    \* it, followed by the standard FontMapping's convert_text on the same text
    converter,            \* _converter: the PreetiUnicodeConverter object
    cv_text,              \* the text argument
    cv_text_is_none,      \* the text argument is None (cv_text is << >> then)
    cv_convert_numbers,   \* the convert_numbers argument
    cv_pc,                \* where the call is
    cv_normalized_preeti, \* convert_to_unicode's normalized_preeti
    cv_unicode_text,      \* convert_text's unicode_text
    cv_result,            \* what convert_text returned
    fm_result,            \* what FontMapping.convert_text returned
    \* font_manager.py: one FontMapping object and one convert_text call on it
    sc_rules,             \* FontMapping.rules
    sc_registered,        \* history: the rules in the order they were registered in
    sc_text,              \* the text argument
    sc_result,            \* convert_text's result
    sc_position,          \* convert_text's position
    sc_pc,                \* where the call is
    \* font_registry.py: the module-level _font_registry and its font manager
    rg_heap,              \* the list objects that hold rules, by reference
    rg_mappings,          \* FontManager._mappings: name -> FontMapping
    rg_default_mapping,   \* FontManager._default_mapping
    rg_registered_fonts,  \* FontRegistry._registered_fonts
    rg_last,              \* the last call made and how it ended
    rg_ops,               \* how many calls have been made
    \* converter.py: threads that call convert_text on the shared _converter
    th_pc,                \* where each thread is
    th_args,              \* each call's arguments
    th_frame,             \* the local variables of the calls, by frame
    th_result,            \* what each call returned
    th_overlap,           \* history: a step was taken while another call was running
    \* preeti_variants.py: one detect_variant call and the lookup of what it
    \* returned in the registry
    dt_text,              \* the text argument ('' and None are << >>)
    dt_font_name,         \* the font_name argument ('' and None are << >>)
    dt_pc,                \* where the caller is
    dt_variant,           \* what detect_variant returned
    dt_mapping,           \* what get_font_mapping returned for it
    \* enhanced/pipeline.py: one ProcessingPipeline, its stages, and the
    \* execute calls made on it one after the other
    pl_global_middleware, \* ProcessingPipeline._global_middleware
    pl_stage_middleware,  \* PipelineStage._middleware of each stage
    pl_pc,                \* where the execute call is
    pl_stop_on_error,     \* the stop_on_error argument
    pl_i,                 \* the stage the for loop of execute is at (from 1)
    pl_k,                 \* the position in the stage's middleware list (from 1)
    pl_results,           \* execute's results
    pl_before,            \* history: process_before calls of this execute, by stage and middleware
    pl_after,             \* history: process_after calls of this execute, by stage and middleware
    pl_runs               \* how many execute calls have been made

cvVars == << converter, cv_text, cv_text_is_none, cv_convert_numbers, cv_pc, cv_normalized_preeti,
             cv_unicode_text, cv_result, fm_result >>

scVars == << sc_rules, sc_registered, sc_text, sc_result, sc_position, sc_pc >>

rgVars == << rg_heap, rg_mappings, rg_default_mapping, rg_registered_fonts,
             rg_last, rg_ops >>

thVars == << th_pc, th_args, th_frame, th_result, th_overlap >>

dtVars == << dt_text, dt_font_name, dt_pc, dt_variant, dt_mapping >>

plVars == << pl_global_middleware, pl_stage_middleware, pl_pc, pl_stop_on_error,
             pl_i, pl_k, pl_results, pl_before, pl_after, pl_runs >>

vars == << cvVars, scVars, rgVars, thVars, dtVars, plVars >>

\* The state of the parts a specification leaves alone
ScanIdle ==
    /\ sc_rules = << >>
    /\ sc_registered = << >>
    /\ sc_text = << >>
    /\ sc_result = << >>
    /\ sc_position = 0
    /\ sc_pc = "idle"

CvIdle ==
    /\ converter = PreetiUnicodeConverter
    /\ cv_text = << >>
    /\ cv_text_is_none = FALSE
    /\ cv_convert_numbers = FALSE
    /\ cv_pc = "idle"
    /\ cv_normalized_preeti = << >>
    /\ cv_unicode_text = << >>
    /\ cv_result = << >>
    /\ fm_result = << >>

\* FontManager._default_mapping before any mapping is registered
None == "None"

RegIdle ==
    /\ rg_heap = << >>
    /\ rg_mappings = << >>
    /\ rg_default_mapping = None
    /\ rg_registered_fonts = {}
    /\ rg_last = << >>
    /\ rg_ops = 0

ThreadsIdle ==
    /\ th_pc = << >>
    /\ th_args = << >>
    /\ th_frame = << >>
    /\ th_result = << >>
    /\ th_overlap = FALSE

DetectIdle ==
    /\ dt_text = << >>
    /\ dt_font_name = << >>
    /\ dt_pc = "idle"
    /\ dt_variant = ""
    /\ dt_mapping = << >>

PipeIdle ==
    /\ pl_global_middleware = << >>
    /\ pl_stage_middleware = << >>
    /\ pl_pc = "idle"
    /\ pl_stop_on_error = FALSE
    /\ pl_i = 0
    /\ pl_k = 0
    /\ pl_results = << >>
    /\ pl_before = << >>
    /\ pl_after = << >>
    /\ pl_runs = 0

\* What the actions of one part leave unchanged
cvOthers == << scVars, rgVars, thVars, dtVars, plVars >>
scOthers == << cvVars, rgVars, thVars, dtVars, plVars >>
rgOthers == << cvVars, scVars, thVars, dtVars, plVars >>
thOthers == << cvVars, scVars, rgVars, dtVars, plVars >>
dtOthers == << cvVars, scVars, rgVars, thVars, plVars >>
plOthers == << cvVars, scVars, rgVars, thVars, dtVars >>

\* =====================================================================
\* Spec: one conversion of a text by both engines
\* =====================================================================
\* Source characters the inputs are built from: k ] l f c { 1, and two
\* characters that no table knows, KA (2325) and the vowel sign O (2379).
Alphabet == {107, 93, 108, 102, 99, 123, 49, 2325, 2379}

\* Every source code of the class tables: a-z, A-Z, 0-9, the symbol keys
SourceCodes == (97..122) \cup (65..90) \cup (48..57) \cup DOMAIN symbols_dict

TextsUpTo(n) == UNION {[1..k -> Alphabet] : k \in 0..n}

\* The text of the example in convert_text's docstring: k]jL
DocstringExample == <<107, 93, 106, 76>>

\* All short texts over Alphabet, every source code alone, every source
\* code followed by ']', the docstring's example, ls, and the sources of
\* the literal substitutions
Inputs ==
    TextsUpTo(MaxLen) \cup {<<c>> : c \in SourceCodes}
                      \cup {<<c, 93>> : c \in SourceCodes}
                      \cup {DocstringExample, <<108, 115>>}
                      \cup {LiteralSubstitutions[i][1] : i \in 1..Len(LiteralSubstitutions)}

CvInit ==
    /\ converter = PreetiUnicodeConverter
    /\ cv_text \in Inputs
    /\ cv_text_is_none \in BOOLEAN
    /\ cv_text_is_none => cv_text = << >>
    /\ cv_convert_numbers \in BOOLEAN
    /\ cv_pc = "call"
    /\ cv_normalized_preeti = << >>
    /\ cv_unicode_text = << >>
    /\ cv_result = << >>
    /\ fm_result = << >>

\* convert_text: if not text: return "", for '' and for None alike
ConvertTextEmpty ==
    /\ cv_pc = "call"
    /\ cv_text = << >>
    /\ cv_result' = << >>
    /\ cv_pc' = "done"
    /\ UNCHANGED << converter, cv_text, cv_text_is_none, cv_convert_numbers, cv_normalized_preeti,
                    cv_unicode_text, fm_result >>
    /\ UNCHANGED cvOthers

\* convert_to_unicode: normalized_preeti = self.normalize_preeti(preeti_text)
Normalize ==
    /\ cv_pc = "call"
    /\ cv_text # << >>
    /\ cv_normalized_preeti' = normalize_preeti(cv_text)
    /\ cv_pc' = "normalized"
    /\ UNCHANGED << converter, cv_text, cv_text_is_none, cv_convert_numbers, cv_unicode_text,
                    cv_result, fm_result >>
    /\ UNCHANGED cvOthers

\* convert_to_unicode: the for loop over normalized_preeti
ConvertToUnicode ==
    /\ cv_pc = "normalized"
    /\ cv_unicode_text' =
          Flatten([i \in 1..Len(cv_normalized_preeti) |->
                      ConvertChar(converter, cv_normalized_preeti[i])])
    /\ cv_pc' = "converted"
    /\ UNCHANGED << converter, cv_text, cv_text_is_none, cv_convert_numbers, cv_normalized_preeti,
                    cv_result, fm_result >>
    /\ UNCHANGED cvOthers

\* convert_text: if convert_numbers: convert_numbers_to_nepali; return
ConvertNumbers ==
    /\ cv_pc = "converted"
    /\ cv_convert_numbers
    /\ cv_result' = convert_numbers_to_nepali(converter, cv_unicode_text)
    /\ cv_pc' = "done"
    /\ UNCHANGED << converter, cv_text, cv_text_is_none, cv_convert_numbers, cv_normalized_preeti,
                    cv_unicode_text, fm_result >>
    /\ UNCHANGED cvOthers

ReturnUnicodeText ==
    /\ cv_pc = "converted"
    /\ ~cv_convert_numbers
    /\ cv_result' = cv_unicode_text
    /\ cv_pc' = "done"
    /\ UNCHANGED << converter, cv_text, cv_text_is_none, cv_convert_numbers, cv_normalized_preeti,
                    cv_unicode_text, fm_result >>
    /\ UNCHANGED cvOthers

\* _converter.convert_numbers_to_nepali(text) called on the text itself;
\* None and '' give ""
ConvertNumbersToNepali ==
    /\ cv_pc = "call"
    /\ cv_result' = convert_numbers_to_nepali(converter, cv_text)
    /\ cv_pc' = "numbers_done"
    /\ UNCHANGED << converter, cv_text, cv_text_is_none, cv_convert_numbers,
                    cv_normalized_preeti, cv_unicode_text, fm_result >>
    /\ UNCHANGED cvOthers

\* The standard FontMapping's convert_text on the same text
FontMappingConvert ==
    /\ cv_pc = "done"
    /\ fm_result' = FontMapping_convert_text(StandardRules, cv_text)
    /\ cv_pc' = "fm_done"
    /\ UNCHANGED << converter, cv_text, cv_text_is_none, cv_convert_numbers, cv_normalized_preeti,
                    cv_unicode_text, cv_result >>
    /\ UNCHANGED cvOthers

Init == CvInit /\ ScanIdle /\ RegIdle /\ ThreadsIdle /\ DetectIdle /\ PipeIdle

Next ==
    \/ ConvertTextEmpty
    \/ Normalize
    \/ ConvertToUnicode
    \/ ConvertNumbers
    \/ ReturnUnicodeText
    \/ ConvertNumbersToNepali
    \/ FontMappingConvert

Spec == Init /\ [][Next]_vars

\* =====================================================================
\* Claims checked under Spec
\* =====================================================================
Returned == cv_pc \in {"done", "fm_done"}

\* The sources of the literal pre-substitutions
LiteralSources == {LiteralSubstitutions[i][1] : i \in 1..Len(LiteralSubstitutions)}

Count(s, c) == Cardinality({i \in 1..Len(s) : s[i] = c})

\* C1, as stated: for every source code c of the class tables whose pair
\* c + ']' is no literal ligature, convert_text(c + ']') is the mapping of c
\* followed by the mapping of ']'.
C1_MarkerAfterEveryCode ==
    \A c \in SourceCodes :
        (Returned /\ cv_text = <<c, 93>> /\ <<c, 93>> \notin LiteralSources)
            => cv_result = ConvertChar(PreetiUnicodeConverter, c)
                             \o ConvertChar(PreetiUnicodeConverter, 93)

\* C1, amended: the same for every such c other than 'l', which
\* normalize_preeti holds back and emits after the ']'; in particular
\* convert_text('k]') is PA followed by the vowel sign E.
C1_MarkerAfterCode ==
    /\ \A c \in SourceCodes \ {108} :
          (Returned /\ cv_text = <<c, 93>> /\ <<c, 93>> \notin LiteralSources)
              => cv_result = ConvertChar(PreetiUnicodeConverter, c)
                               \o ConvertChar(PreetiUnicodeConverter, 93)
    /\ (Returned /\ cv_text = <<107, 93>>) => cv_result = <<2346, 2375>>
    /\ (Returned /\ cv_text = <<108, 93>>) => cv_result = <<2375, 2367>>

C1_Witness ==
    /\ cv_pc = "done"
    /\ cv_text = <<107, 93>>
    /\ cv_result = <<2346, 2375>>

\* C3: 'cf' converts to the letter AA (2310) alone, not to the mappings of
\* 'c' and 'f' one after the other, by convert_text and by the standard
\* FontMapping alike.
C3_CfLigature ==
    (cv_text = <<99, 102>>) =>
        /\ Returned => cv_result = <<2310>>
        /\ Returned => cv_result # ConvertChar(PreetiUnicodeConverter, 99)
                                     \o ConvertChar(PreetiUnicodeConverter, 102)
        /\ cv_pc = "fm_done" => fm_result = <<2310>>

C3_Witness ==
    /\ cv_pc = "fm_done"
    /\ cv_text = <<99, 102>>
    /\ cv_result = <<2310>>
    /\ fm_result = <<2310>>

\* C4: a text with no recognized source character (no a-z, A-Z, 0-9, no
\* symbol key), the empty text included, is returned unchanged by
\* convert_text under both values of convert_numbers and by the standard
\* FontMapping.
Unrecognized(s) == \A i \in 1..Len(s) : s[i] \notin SourceCodes

C4_PassThrough ==
    Unrecognized(cv_text) =>
        /\ Returned => cv_result = cv_text
        /\ cv_pc = "fm_done" => fm_result = cv_text

C4_Witness ==
    /\ cv_pc = "fm_done"
    /\ cv_text = <<2325, 2379>>
    /\ cv_result = cv_text
    /\ fm_result = cv_text
    /\ ~cv_convert_numbers

C6_TrailingMarkerDropped ==
    (cv_text # << >> /\ cv_text[Len(cv_text)] = 108) =>
        LET s == SubSeq(cv_text, 1, Len(cv_text) - 1)
        IN  /\ cv_pc \in {"normalized", "converted", "done", "fm_done"}
                => cv_normalized_preeti = normalize_preeti(s)
            /\ Returned
                => cv_result = convert_text(PreetiUnicodeConverter, s, cv_convert_numbers)
            /\ (Returned /\ s = << >>) => cv_result = << >>

C6_Witness ==
    /\ cv_pc = "done"
    /\ cv_text = <<107, 108>>
    /\ cv_normalized_preeti = <<107>>
    /\ cv_result = <<2346>>

\* C16: convert_numbers_to_nepali keeps the length of the text, puts the
\* Devanagari digit of d where the ASCII digit d stood, and leaves every
\* other character where it was.
C16_DigitSubstitution ==
    cv_pc = "numbers_done" =>
        /\ Len(cv_result) = Len(cv_text)
        /\ \A i \in 1..Len(cv_text) :
              cv_result[i] = IF 48 <= cv_text[i] /\ cv_text[i] <= 57
                             THEN 2406 + (cv_text[i] - 48)
                             ELSE cv_text[i]

\* '1', KA, '1' has become Devanagari one, KA, Devanagari one.
C16_Witness ==
    /\ cv_pc = "numbers_done"
    /\ cv_text = <<49, 2325, 49>>
    /\ cv_result = <<2407, 2325, 2407>>

\* C17: a call with None does not return; it raises.
C17_NoneRaises ==
    (cv_text_is_none /\ cv_pc # "call") => cv_pc = "raised"

Normalized ==
    cv_pc \in {"normalized", "converted", "done", "fm_done"} /\ cv_text # << >>

\* One pass over the text from position i on: the literal sequence that
\* starts at the position, if there is one, is replaced and skipped.
RECURSIVE SinglePassFrom(_, _)
SinglePassFrom(text, i) ==
    IF i >= Len(text) THEN << >>
    ELSE LET hits == {k \in 1..Len(LiteralSubstitutions) :
                         StartsWith(Slice(text, i, Len(text)), LiteralSubstitutions[k][1])}
         IN  IF hits = {}
             THEN << At(text, i) >> \o SinglePassFrom(text, i + 1)
             ELSE LET k == CHOOSE h \in hits : TRUE
                  IN  LiteralSubstitutions[k][2]
                          \o SinglePassFrom(text, i + Len(LiteralSubstitutions[k][1]))

\* C22: the text normalize_preeti works on after its literal substitutions
\* is the text a single left-to-right pass gives, in which of two overlapping
\* literal sequences the left one is replaced.
C22_SinglePass ==
    Normalized => PreSubstitute(cv_text) = SinglePassFrom(cv_text, 0)

\* The states of the while loop of normalize_preeti on a text, from st on
RECURSIVE NormalizeStates(_, _)
NormalizeStates(text, st) ==
    {st} \cup IF st.index + 1 < Len(text)
              THEN NormalizeStates(text, NormalizeStep(text, st))
              ELSE {}

\* The text of the example of C23: ls
PreBaseExample == <<108, 115>>

\* C23: where an 'l' of the pre-substituted text is followed by a character
\* c other than 'l' and the loop handles c on its own, moving on by one
\* position, the iteration at the 'l' emits nothing, the iteration at c emits
\* c followed by 'l', and no marker is pending afterwards; ls normalizes to
\* sl and converts to KA, vowel sign I.
C23_PreBaseDeferred ==
    /\ Normalized =>
          LET text == PreSubstitute(cv_text)
              states == NormalizeStates(text, NormalizeEntry)
          IN  \A st, s1 \in states :
                  ( /\ st.index + 2 < Len(text)
                    /\ At(text, st.index + 1) = 108
                    /\ At(text, st.index + 2) # 108
                    /\ s1.index = st.index + 1
                    /\ NormalizeStep(text, s1).index = s1.index + 1 )
                  => /\ s1.normalized = st.normalized
                     /\ NormalizeStep(text, s1).normalized
                           = st.normalized \o << At(text, st.index + 2), 108 >>
                     /\ NormalizeStep(text, s1).previous_symbol = << >>
    /\ (Returned /\ cv_text = PreBaseExample) =>
          /\ cv_normalized_preeti = <<115, 108>>
          /\ cv_result = <<2325, 2367>>

\* ls has been converted to KA, vowel sign I
C23_Witness ==
    /\ cv_pc = "done"
    /\ cv_text = PreBaseExample
    /\ cv_normalized_preeti = <<115, 108>>
    /\ cv_result = <<2325, 2367>>

\* C24: in every iteration of the loop of normalize_preeti at a cursor i,
\* if text[i+2] is '{' and text[i+1] is 'f' or the vowel sign O, then
\* '{' + text[i] + text[i+1] is emitted and the cursor moves on by 3;
\* otherwise, if text[i+1] is '{' and text[i] is not 'f', then '{' + text[i]
\* is emitted and the cursor moves on by 2; and the output holds exactly as
\* many '{' as the pre-substituted text.
C24_StackingHoisted ==
    Normalized =>
        LET text == PreSubstitute(cv_text)
            states == NormalizeStates(text, NormalizeEntry)
        IN  /\ \A st \in states :
                  LET i == st.index + 1
                      nx == NormalizeStep(text, st)
                  IN  i < Len(text) =>
                        IF /\ i + 2 < Len(text)
                           /\ At(text, i + 2) = 123
                           /\ At(text, i + 1) \in {102, 2379}
                        THEN /\ nx.normalized = st.normalized
                                    \o << 123, At(text, i), At(text, i + 1) >>
                             /\ nx.index + 1 = i + 3
                        ELSE IF i + 1 < Len(text) /\ At(text, i + 1) = 123
                                                  /\ At(text, i) # 102
                        THEN /\ nx.normalized = st.normalized \o << 123, At(text, i) >>
                             /\ nx.index + 1 = i + 2
                        ELSE TRUE
            /\ Count(cv_normalized_preeti, 123) = Count(text, 123)

\* kf{ has been normalized to {kf
C24_Witness ==
    /\ cv_pc = "normalized"
    /\ cv_text = <<107, 102, 123>>
    /\ cv_normalized_preeti = <<123, 107, 102>>

\* C25: the output of normalize_preeti holds every character as often as
\* the pre-substituted text does, except that it holds one 'l' less when,
\* and only when, the last character of that text is an 'l'.
C25_OnlyReorders ==
    Normalized =>
        LET text == PreSubstitute(cv_text)
            out == cv_normalized_preeti
            dropped == IF text[Len(text)] = 108 THEN 1 ELSE 0
        IN  /\ \A i \in 1..Len(text) :
                  text[i] # 108 => Count(out, text[i]) = Count(text, text[i])
            /\ \A j \in 1..Len(out) :
                  out[j] # 108 => Count(out, out[j]) = Count(text, out[j])
            /\ Count(out, 108) = Count(text, 108) - dropped

PlainAscii(text) ==
    \A i \in 1..Len(text) :
        text[i] \in SourceCodes /\ text[i] < 128 /\ text[i] \notin {108, 123}

\* C29: on a text of ASCII source codes without 'l' and '{', the standard
\* FontMapping's convert_text returns what convert_text returns with
\* convert_numbers = False.
C29_EnginesAgree ==
    ( cv_pc = "fm_done" /\ ~cv_convert_numbers /\ PlainAscii(cv_text) )
        => fm_result = cv_result

\* =====================================================================
\* SpecScan: a FontMapping is built, rules are added, convert_text runs
\* =====================================================================
\* The rules the mappings of this specification are made of, over the
\* source characters a, b and '(' and the targets X, Y and Z:
\*   a -> X and a -> Z at priority 1;  ab -> Y at priority 1 and at priority 2;
\*   b -> Z at priority 1 after an 'a';  '' -> '' at priority 0;
\*   the pattern rule ( -> X at priority 0.
RuleUniverse ==
    { FontRule(<<97>>, <<88>>, "character", 1, << >>, << >>),
      FontRule(<<97>>, <<90>>, "character", 1, << >>, << >>),
      FontRule(<<97, 98>>, <<89>>, "character", 1, << >>, << >>),
      FontRule(<<97, 98>>, <<89>>, "character", 2, << >>, << >>),
      FontRule(<<98>>, <<90>>, "character", 1, <<97>>, << >>),
      FontRule(<< >>, << >>, "character", 0, << >>, << >>),
      FontRule(<<40>>, <<88>>, "pattern", 0, << >>, << >>) }

ScanAlphabet == {97, 98, 40}

ScanTexts == UNION {[1..k -> ScanAlphabet] : k \in 0..MaxScanLen}

CtorLists == UNION {[1..k -> RuleUniverse] : k \in 0..MaxCtorRules}

\* FontMapping(..., rules=ctor): __post_init__ has sorted the list
ScanInit ==
    /\ \E ctor \in CtorLists :
          /\ sc_rules = post_init(ctor)
          /\ sc_registered = ctor
    /\ sc_text = << >>
    /\ sc_result = << >>
    /\ sc_position = 0
    /\ sc_pc = "built"

\* FontMapping.add_rule
ScAddRule ==
    /\ sc_pc = "built"
    /\ Len(sc_rules) < MaxRules
    /\ \E rule \in RuleUniverse :
          /\ sc_rules' = add_rule(sc_rules, rule)
          /\ sc_registered' = Append(sc_registered, rule)
    /\ UNCHANGED << sc_text, sc_result, sc_position, sc_pc >>
    /\ UNCHANGED scOthers

\* convert_text: if not text: return text
ScCallEmpty ==
    /\ sc_pc = "built"
    /\ sc_text' = << >>
    /\ sc_result' = << >>
    /\ sc_pc' = "done"
    /\ UNCHANGED << sc_rules, sc_registered, sc_position >>
    /\ UNCHANGED scOthers

\* convert_text: result = text; position = 0
ScCall ==
    /\ sc_pc = "built"
    /\ \E text \in ScanTexts \ {<< >>} :
          /\ sc_text' = text
          /\ sc_result' = text
    /\ sc_position' = 0
    /\ sc_pc' = "scan"
    /\ UNCHANGED << sc_rules, sc_registered >>
    /\ UNCHANGED scOthers

\* One iteration of the while loop; an exception raised by apply leaves
\* convert_text
ScStep ==
    /\ sc_pc = "scan"
    /\ sc_position < Len(sc_result)
    /\ LET st == ScanStep(sc_rules, [result |-> sc_result, position |-> sc_position,
                                     raised |-> FALSE])
       IN  /\ sc_result' = st.result
           /\ sc_position' = st.position
           /\ sc_pc' = IF st.raised THEN "raised" ELSE "scan"
    /\ UNCHANGED << sc_rules, sc_registered, sc_text >>
    /\ UNCHANGED scOthers

\* The loop condition fails: return result
ScReturn ==
    /\ sc_pc = "scan"
    /\ ~(sc_position < Len(sc_result))
    /\ sc_pc' = "done"
    /\ UNCHANGED << sc_rules, sc_registered, sc_text, sc_result, sc_position >>
    /\ UNCHANGED scOthers

InitScan == ScanInit /\ CvIdle /\ RegIdle /\ ThreadsIdle /\ DetectIdle /\ PipeIdle

NextScan ==
    \/ ScAddRule
    \/ ScCallEmpty
    \/ ScCall
    \/ ScStep
    \/ ScReturn

\* convert_text is synchronous code: once called it keeps running, so the
\* loop body and the return are taken whenever they can be.
SpecScan ==
    InitScan /\ [][NextScan]_vars /\ WF_vars(ScStep) /\ WF_vars(ScReturn)

\* =====================================================================
\* Claims checked under SpecScan
\* =====================================================================
\* C2: in a mapping that holds a one-character rule for c1 and a
\* two-character rule for c1c2 of equal or higher priority, whatever the
\* order they were registered in, the input c1c2 converts to the
\* two-character rule's target.
C2_LongestMatch ==
    \A i, j \in 1..Len(sc_rules) :
        ( /\ sc_pc = "done"
          /\ Len(sc_rules[i].source) = 1
          /\ Len(sc_rules[j].source) = 2
          /\ sc_rules[j].source[1] = sc_rules[i].source[1]
          /\ sc_rules[j].priority >= sc_rules[i].priority
          /\ sc_text = sc_rules[j].source )
        => sc_result = sc_rules[j].target

\* C9: every convert_text call on a mapping that can be registered ends by
\* returning a string: it neither raises nor runs for ever.
C9_Total == (sc_pc = "scan") ~> (sc_pc = "done")

\* C19: the rule list is at all times ordered by priority, highest first,
\* and among rules of one priority by source length, longest first.
C19_RuleOrder ==
    \A i, j \in 1..Len(sc_rules) :
        i < j =>
            \/ sc_rules[i].priority > sc_rules[j].priority
            \/ /\ sc_rules[i].priority = sc_rules[j].priority
               /\ Len(sc_rules[i].source) >= Len(sc_rules[j].source)

\* Rule k of the registration history matches the text at position 0
MatchesAtStart(k) == RuleMatches(sc_registered[k], sc_text, 0)

\* C20: when convert_text has converted a one-character text for which two
\* rules of the same source and the same priority match, no rule of higher
\* priority matching, the result is the target of the one among the
\* matching rules of that priority that was registered first.
C20_StableTieBreak ==
    \A i, j \in 1..Len(sc_registered) :
        ( /\ sc_pc = "done"
          /\ Len(sc_text) = 1
          /\ i < j
          /\ sc_registered[i].source = sc_text
          /\ sc_registered[j].source = sc_text
          /\ sc_registered[i].priority = sc_registered[j].priority
          /\ MatchesAtStart(i)
          /\ MatchesAtStart(j)
          /\ \A k \in 1..Len(sc_registered) :
                MatchesAtStart(k) =>
                    \/ sc_registered[k].priority < sc_registered[i].priority
                    \/ sc_registered[k].priority = sc_registered[i].priority /\ i <= k )
        => sc_result = sc_registered[i].target

\* a -> Z was given to the constructor with ab -> Y at priority 2, then
\* a -> X was added at the priority of a -> Z: a converts to Z.
C20_Witness ==
    /\ sc_pc = "done"
    /\ sc_registered = << FontRule(<<97>>, <<90>>, "character", 1, << >>, << >>),
                          FontRule(<<97, 98>>, <<89>>, "character", 2, << >>, << >>),
                          FontRule(<<97>>, <<88>>, "character", 1, << >>, << >>) >>
    /\ sc_text = <<97>>
    /\ sc_result = <<90>>

\* The number of characters of the text handed to convert_text that the
\* scan has consumed: the part of the working text from the cursor on is
\* the unconsumed end of that text.
SourcePosition == Len(sc_text) - (Len(sc_result) - sc_position)

\* C21: at every cursor position of the scan, a rule with a context_before
\* whose source stands at the cursor passes its context test exactly when the
\* characters of the text handed to convert_text that precede the cursor end
\* with the context, whatever earlier rules have put in their place.
C21_ContextAgainstSource ==
    ( sc_pc = "scan" /\ sc_position < Len(sc_result) ) =>
        \A k \in 1..Len(sc_rules) :
            ( /\ sc_rules[k].context_before # << >>
              /\ sc_position + Len(sc_rules[k].source) <= Len(sc_result)
              /\ Slice(sc_result, sc_position, sc_position + Len(sc_rules[k].source))
                    = sc_rules[k].source )
            => ( matches_context(sc_rules[k], sc_result, sc_position)
                 <=> EndsWith(Slice(sc_text, 0, SourcePosition),
                              sc_rules[k].context_before) )

\* C26: while the scan loop of convert_text runs the cursor is never
\* negative and never beyond the end of the working text, no iteration moves
\* it back, and the loop condition fails, so that the result is returned,
\* exactly when the cursor is at the end of the working text.
C26_CursorInvariant ==
    [][ /\ sc_pc' = "scan" =>
              0 <= sc_position' /\ sc_position' <= Len(sc_result')
        /\ sc_pc = "scan" =>
              /\ sc_position' >= sc_position
              /\ (sc_pc' = "done") <=> (sc_position = Len(sc_result)) ]_vars

\* ab -> Y has replaced two characters by one: the working text is shorter
\* than the text handed in, and the loop has ended with the cursor at its end.
C26_Witness ==
    /\ sc_pc = "done"
    /\ sc_text = <<97, 98>>
    /\ sc_result = <<89>>
    /\ sc_position = 1

\* =====================================================================
\* SpecReg: the font registry after the built-in variants are registered;
\* further variants are registered and the rules of variants are changed
\* =====================================================================
\* How many registry calls a behaviour makes
MaxOps == 2

\* A MappingRule object; before and after of None are << >>.
MappingRule(from_char, to_char, priority, before, after) ==
    [ from_char |-> from_char, to_char |-> to_char, priority |-> priority,
      before |-> before, after |-> after ]

\* MappingRule.to_font_rule
to_font_rule(rule) ==
    FontRule(rule.from_char, rule.to_char, "character", rule.priority,
             rule.before, rule.after)

\* A FontDefinition object: display_name is given, font_type is the default
FontDefinition(name, display_name, rules) ==
    [ name |-> name, display_name |-> display_name, font_type |-> "custom",
      rules |-> rules ]

\* FontDefinition.add_rules_from_dict: the items in the dict's order, each
\* at the default priority with no context
add_rules_from_dict(definition, rules_dict) ==
    [ definition EXCEPT !.rules =
        @ \o [i \in 1..Len(rules_dict) |->
                 MappingRule(rules_dict[i][1], rules_dict[i][2], 0, << >>, << >>)] ]

\* A new list object that shares the newest list object there is, whose
\* items it replaces, instead of being an object of its own.
AllocListAliased(heap, items) ==
    IF heap = << >>
    THEN [heap |-> <<items>>, ref |-> 1]
    ELSE [heap |-> [heap EXCEPT ![Len(heap)] = items], ref |-> Len(heap)]

\* A new list object holding items: rules = [] ... / a list comprehension
AllocList(heap, items) ==
    [heap |-> Append(heap, items), ref |-> Len(heap) + 1]

\* FontMapping(name=..., font_type=..., rules=<the list object ref>):
\* __post_init__ sorts the list in place
NewFontMapping(heap, name, font_type, ref) ==
    [ heap |-> [heap EXCEPT ![ref] = post_init(@)],
      mapping |-> [name |-> name, font_type |-> font_type, rules |-> ref] ]

\* FontDefinition.to_font_mapping: font_rules is a new list
to_font_mapping(heap, definition) ==
    LET font_type == IF definition.font_type \in
                            {"preeti", "preeti_plus", "kantipur", "custom", "unicode"}
                     THEN definition.font_type ELSE "custom"
        a == AllocList(heap, [i \in 1..Len(definition.rules) |->
                                  to_font_rule(definition.rules[i])])
    IN  NewFontMapping(a.heap, definition.name, font_type, a.ref)

\* <Variant>Mapping().create_mapping(): rules is a new list; every variant
\* passes FontType.PREETI
VariantCreateMapping(heap, variant) ==
    LET a == AllocList(heap, CreateMappingRuleList(variant))
    IN  NewFontMapping(a.heap, variant, "preeti", a.ref)

\* FontManager.register_mapping on the manager mgr
register_mapping(mgr, mapping, is_default) ==
    [ mappings |->
          [n \in DOMAIN mgr.mappings \cup {mapping.name} |->
              IF n = mapping.name THEN mapping ELSE mgr.mappings[n]],
      default_mapping |->
          IF is_default \/ mgr.default_mapping = None
          THEN mapping.name ELSE mgr.default_mapping ]

\* FontManager.get_mapping's lookup: the mapping is there
HasMapping(name) == name \in DOMAIN rg_mappings

\* get_font_mapping(name).rules, the contents of the list object
RulesOf(name) == rg_heap[rg_mappings[name].rules]

\* The state of registry reg = [heap, mgr, registered_fonts] after one
\* built-in variant is created and registered
RegisterBuiltin(reg, variant, is_default) ==
    LET m == VariantCreateMapping(reg.heap, variant)
    IN  [ heap |-> m.heap,
          mgr |-> register_mapping(reg.mgr, m.mapping, is_default),
          registered_fonts |-> reg.registered_fonts \cup {m.mapping.name} ]

\* FontRegistry.__init__ followed by _register_builtin_fonts
BuiltinRegistry ==
    LET empty == [ heap |-> << >>,
                   mgr |-> [mappings |-> << >>, default_mapping |-> None],
                   registered_fonts |-> {} ]
        r1 == RegisterBuiltin(empty, "standard_preeti", TRUE)
        r2 == RegisterBuiltin(r1, "preeti_plus", FALSE)
    IN  RegisterBuiltin(r2, "kantipur", FALSE)

\* validate_basic_fields and validate_rules: the definition has no error
IsValidDefinition(definition) ==
    /\ definition.name # ""
    /\ definition.display_name # ""
    /\ definition.rules # << >>
    /\ \A i \in 1..Len(definition.rules) :
          /\ definition.rules[i].from_char # << >>
          /\ definition.rules[i].to_char # << >>

\* CustomFontLoader.create_from_mapping_dict, display_name left to its
\* default: the definition it builds
create_from_mapping_dict(name, mapping_dict) ==
    add_rules_from_dict(FontDefinition(name, name, << >>), mapping_dict)

\* The names custom definitions carry: a new name, the empty name, and the
\* name of a built-in variant
DefinitionNames == {"custom", "", "kantipur"}

\* The rule lists custom definitions carry: none, a -> X, a -> X with
\* ab -> Y at priority 1, and a -> X with a -> Z
DefinitionRules ==
    { << >>,
      << MappingRule(<<97>>, <<88>>, 0, << >>, << >>) >>,
      << MappingRule(<<97>>, <<88>>, 0, << >>, << >>),
         MappingRule(<<97, 98>>, <<89>>, 1, << >>, << >>) >>,
      << MappingRule(<<97>>, <<88>>, 0, << >>, << >>),
         MappingRule(<<97>>, <<90>>, 0, << >>, << >>) >> }

Definitions ==
    { FontDefinition(name, "Custom", rules) :
          name \in DefinitionNames, rules \in DefinitionRules }

\* The dicts register_font_from_dict is called with: {}, {'a': 'X'} and
\* {'a': ''}
MappingDicts ==
    { << >>, << << <<97>>, <<88>> >> >>, << << <<97>>, << >> >> >> }

\* The rules add_rule is called with: a -> X at priority 1 and k -> Y at
\* priority 20, above every built-in rule
AddedRules ==
    { FontRule(<<97>>, <<88>>, "character", 1, << >>, << >>),
      FontRule(<<107>>, <<89>>, "character", 20, << >>, << >>) }

\* The (source, target) pairs remove_rule is called with: a -> X, and
\* k -> PA, a rule of every built-in variant
RemovedPairs ==
    { << <<97>>, <<88>> >>, << <<107>>, <<2346>> >> }

\* The texts whose conversion by a variant is compared
ProbeTexts == { <<107>>, <<97, 98>> }

RegInit ==
    /\ rg_heap = BuiltinRegistry.heap
    /\ rg_mappings = BuiltinRegistry.mgr.mappings
    /\ rg_default_mapping = BuiltinRegistry.mgr.default_mapping
    /\ rg_registered_fonts = BuiltinRegistry.registered_fonts
    /\ rg_last = [op |-> "init", name |-> "", rules |-> << >>, raised |-> FALSE]
    /\ rg_ops = 0

\* The body of FontRegistry.register_font.  to_font_mapping, register_mapping
\* and set.add raise nothing for a FontDefinition, so the except branch is
\* not taken.
DoRegisterFont(op, definition) ==
    LET m == to_font_mapping(rg_heap, definition)
        mgr == register_mapping([mappings |-> rg_mappings,
                                 default_mapping |-> rg_default_mapping],
                                m.mapping, FALSE)
    IN  /\ rg_heap' = m.heap
        /\ rg_mappings' = mgr.mappings
        /\ rg_default_mapping' = mgr.default_mapping
        /\ rg_registered_fonts' = rg_registered_fonts \cup {m.mapping.name}
        /\ rg_last' = [op |-> op, name |-> definition.name,
                       rules |-> definition.rules, raised |-> FALSE]

\* FontRegistry.register_font(font_definition)
RgRegisterFont ==
    /\ rg_ops < MaxOps
    /\ \E definition \in Definitions : DoRegisterFont("register_font", definition)
    /\ rg_ops' = rg_ops + 1
    /\ UNCHANGED rgOthers

\* FontRegistry.register_font_from_dict(name, mapping_dict):
\* create_from_mapping_dict raises ValidationError for a definition with
\* errors, and the registry re-raises it; otherwise register_font runs
RgRegisterFontFromDict ==
    /\ rg_ops < MaxOps
    /\ \E name \in DefinitionNames, mapping_dict \in MappingDicts :
          LET definition == create_from_mapping_dict(name, mapping_dict)
          IN  IF IsValidDefinition(definition)
              THEN DoRegisterFont("register_font_from_dict", definition)
              ELSE /\ rg_last' = [op |-> "register_font_from_dict", name |-> name,
                                  rules |-> definition.rules, raised |-> TRUE]
                   /\ UNCHANGED << rg_heap, rg_mappings, rg_default_mapping,
                                   rg_registered_fonts >>
    /\ rg_ops' = rg_ops + 1
    /\ UNCHANGED rgOthers

\* get_font_mapping(name).add_rule(rule)
RgAddRule ==
    /\ rg_ops < MaxOps
    /\ \E name \in DOMAIN rg_mappings, rule \in AddedRules :
          /\ rg_heap' = [rg_heap EXCEPT ![rg_mappings[name].rules] = add_rule(@, rule)]
          /\ rg_last' = [op |-> "add_rule", name |-> name, rules |-> << >>,
                         raised |-> FALSE]
    /\ rg_ops' = rg_ops + 1
    /\ UNCHANGED << rg_mappings, rg_default_mapping, rg_registered_fonts >>
    /\ UNCHANGED rgOthers

\* get_font_mapping(name).remove_rule(source, target)
RgRemoveRule ==
    /\ rg_ops < MaxOps
    /\ \E name \in DOMAIN rg_mappings, pair \in RemovedPairs :
          /\ rg_heap' = [rg_heap EXCEPT ![rg_mappings[name].rules] =
                            remove_rule(@, pair[1], pair[2])]
          /\ rg_last' = [op |-> "remove_rule", name |-> name, rules |-> << >>,
                         raised |-> FALSE]
    /\ rg_ops' = rg_ops + 1
    /\ UNCHANGED << rg_mappings, rg_default_mapping, rg_registered_fonts >>
    /\ UNCHANGED rgOthers

\* The names unregister_font is called with: a built-in variant, the name
\* of the custom definitions, and a name nothing is registered under
UnregisteredNames == {"kantipur", "custom", "missing"}

\* FontRegistry.unregister_font(name): the name is taken out of
\* _registered_fonts and True is returned, or False for a name that is not
\* in it; the font manager is not touched
RgUnregisterFont ==
    /\ rg_ops < MaxOps
    /\ \E name \in UnregisteredNames :
          /\ rg_registered_fonts' = rg_registered_fonts \ {name}
          /\ rg_last' = [op |-> "unregister_font", name |-> name, rules |-> << >>,
                         raised |-> FALSE,
                         returned |-> (name \in rg_registered_fonts)]
    /\ rg_ops' = rg_ops + 1
    /\ UNCHANGED << rg_heap, rg_mappings, rg_default_mapping >>
    /\ UNCHANGED rgOthers

InitReg == RegInit /\ CvIdle /\ ScanIdle /\ ThreadsIdle /\ DetectIdle /\ PipeIdle

NextReg ==
    \/ RgRegisterFont
    \/ RgRegisterFontFromDict
    \/ RgAddRule
    \/ RgRemoveRule
    \/ RgUnregisterFont

SpecReg == InitReg /\ [][NextReg]_vars

\* =====================================================================
\* Claims checked under SpecReg
\* =====================================================================
\* C7: a call that registers a variant or adds a rule to or removes a rule
\* from a variant leaves the rule list of every already registered variant
\* of another name as it was, and with it what that variant's convert_text
\* returns.
C7_VariantIsolation ==
    [][ \A n \in DOMAIN rg_mappings :
            n # rg_last'.name =>
                /\ n \in DOMAIN rg_mappings'
                /\ RulesOf(n)' = RulesOf(n)
                /\ \A text \in ProbeTexts :
                      FontMapping_convert_text(RulesOf(n)', text)
                          = FontMapping_convert_text(RulesOf(n), text) ]_vars

\* After a further variant is registered and a rule is added to Preeti
\* Plus, Preeti Plus converts k by the added rule and the other built-in
\* variants hold the rules they were built with.
C7_Witness ==
    /\ rg_last.op = "add_rule"
    /\ rg_last.name = "preeti_plus"
    /\ "custom" \in DOMAIN rg_mappings
    /\ FontMapping_convert_text(RulesOf("preeti_plus"), <<107>>) = <<89>>
    /\ RulesOf("standard_preeti") = StandardRules
    /\ RulesOf("kantipur") = KantipurRules

\* C10: register_font on a definition with no rules or an empty name
\* raises, and leaves the registered names and the font manager's mappings
\* as they were.
C10_InvalidDefinitionRejected ==
    [][ ( /\ rg_ops' = rg_ops + 1
          /\ rg_last'.op = "register_font"
          /\ (rg_last'.name = "" \/ rg_last'.rules = << >>) )
        => ( /\ rg_last'.raised
             /\ rg_registered_fonts' = rg_registered_fonts
             /\ rg_mappings' = rg_mappings ) ]_vars

\* Two rules of the definition's list have the same source and the same
\* context and different targets
ConflictingRules(rules) ==
    \E i, j \in 1..Len(rules) :
        /\ rules[i].from_char = rules[j].from_char
        /\ rules[i].before = rules[j].before
        /\ rules[i].after = rules[j].after
        /\ rules[i].to_char # rules[j].to_char

\* C11: registering a definition that holds two rules of the same source
\* and context with different targets raises, and registers nothing.
C11_ConflictingRulesRejected ==
    [][ ( /\ rg_ops' = rg_ops + 1
          /\ rg_last'.op \in {"register_font", "register_font_from_dict"}
          /\ ConflictingRules(rg_last'.rules) )
        => ( /\ rg_last'.raised
             /\ rg_registered_fonts' = rg_registered_fonts
             /\ rg_mappings' = rg_mappings ) ]_vars

\* C28: after any calls of register_font, register_font_from_dict and
\* unregister_font, a name is in list_available_fonts() exactly if
\* get_font_mapping(name) returns a mapping, and after unregister_font(name)
\* has returned True get_font_mapping(name) returns None.
C28_RegistryConsistent ==
    /\ \A name \in rg_registered_fonts \cup DOMAIN rg_mappings :
          name \in rg_registered_fonts <=> HasMapping(name)
    /\ (rg_last # << >> /\ rg_last.op = "unregister_font" /\ rg_last.returned)
          => ~HasMapping(rg_last.name)

\* =====================================================================
\* SpecConc: threads call convert_text on the shared _converter; a step of
\* a thread is one statement or one loop iteration of the call
\* =====================================================================
\* How many threads there are
NThreads == 2

Threads == 1..NThreads

\* The calls the threads make: the texts '', 'lk', 'k{' and '!1', with
\* convert_numbers True and False
ThInputs ==
    { [text |-> text, convert_numbers |-> convert_numbers] :
          text \in { << >>, <<108, 107>>, <<107, 123>>, <<33, 49>> },
          convert_numbers \in BOOLEAN }

\* A single frame that every call keeps its local variables in.
FrameShared(t) == 1

\* The frame that holds the local variables of thread t's call: each call
\* has a frame of its own
Frame(t) == t

\* The local variables of convert_text and of the methods it calls, before
\* the call
NoFrame ==
    [ text |-> << >>, convert_numbers |-> FALSE, subst |-> << >>, index |-> -1,
      normalized |-> << >>, previous_symbol |-> << >>,
      normalized_preeti |-> << >>, pos |-> 0, converted |-> << >>,
      unicode_text |-> << >>, result |-> << >> ]

\* Another thread is inside a call
OthersRunning(t) == \E u \in Threads \ {t} : th_pc[u] \notin {"start", "done"}

ThInit ==
    /\ th_pc = [t \in Threads |-> "start"]
    /\ th_args = [t \in Threads |-> [text |-> << >>, convert_numbers |-> FALSE]]
    /\ th_frame = [t \in Threads |-> NoFrame]
    /\ th_result = [t \in Threads |-> << >>]
    /\ th_overlap = FALSE

\* convert_text(text, convert_numbers): if not text: return ""; otherwise
\* convert_to_unicode and normalize_preeti are entered, whose empty-text
\* tests fail
ThCall(t) ==
    /\ th_pc[t] = "start"
    /\ \E args \in ThInputs :
          /\ th_args' = [th_args EXCEPT ![t] = args]
          /\ th_frame' = [th_frame EXCEPT ![Frame(t)] =
                             [NoFrame EXCEPT !.text = args.text,
                                             !.convert_numbers = args.convert_numbers]]
          /\ IF args.text = << >>
             THEN /\ th_pc' = [th_pc EXCEPT ![t] = "done"]
                  /\ th_result' = [th_result EXCEPT ![t] = << >>]
             ELSE /\ th_pc' = [th_pc EXCEPT ![t] = "replace"]
                  /\ UNCHANGED th_result
    /\ th_overlap' = (th_overlap \/ OthersRunning(t))
    /\ UNCHANGED thOthers

\* normalize_preeti: normalized = ''; previous_symbol = ''; the replace
\* chain; index = -1
ThReplace(t) ==
    /\ th_pc[t] = "replace"
    /\ th_frame' = [th_frame EXCEPT ![Frame(t)] =
                       [@ EXCEPT !.subst = PreSubstitute(th_frame[Frame(t)].text),
                                 !.index = -1,
                                 !.normalized = << >>,
                                 !.previous_symbol = << >>]]
    /\ th_pc' = [th_pc EXCEPT ![t] = "normalize"]
    /\ th_overlap' = (th_overlap \/ OthersRunning(t))
    /\ UNCHANGED << th_args, th_result >>
    /\ UNCHANGED thOthers

\* normalize_preeti: one iteration of the while loop
ThNormalizeStep(t) ==
    /\ th_pc[t] = "normalize"
    /\ th_frame[Frame(t)].index + 1 < Len(th_frame[Frame(t)].subst)
    /\ LET f == th_frame[Frame(t)]
           st == NormalizeStep(f.subst, [index |-> f.index, normalized |-> f.normalized,
                                         previous_symbol |-> f.previous_symbol])
       IN  th_frame' = [th_frame EXCEPT ![Frame(t)] =
                           [@ EXCEPT !.index = st.index,
                                     !.normalized = st.normalized,
                                     !.previous_symbol = st.previous_symbol]]
    /\ th_overlap' = (th_overlap \/ OthersRunning(t))
    /\ UNCHANGED << th_pc, th_args, th_result >>
    /\ UNCHANGED thOthers

\* normalize_preeti returns normalized; convert_to_unicode: converted = ''
\* and the for loop starts
ThNormalizeReturn(t) ==
    /\ th_pc[t] = "normalize"
    /\ ~(th_frame[Frame(t)].index + 1 < Len(th_frame[Frame(t)].subst))
    /\ th_frame' = [th_frame EXCEPT ![Frame(t)] =
                       [@ EXCEPT !.normalized_preeti = th_frame[Frame(t)].normalized,
                                 !.pos = 0,
                                 !.converted = << >>]]
    /\ th_pc' = [th_pc EXCEPT ![t] = "convert"]
    /\ th_overlap' = (th_overlap \/ OthersRunning(t))
    /\ UNCHANGED << th_args, th_result >>
    /\ UNCHANGED thOthers

\* convert_to_unicode: one iteration of the for loop, which reads the
\* tables of the shared converter
ThConvertChar(t) ==
    /\ th_pc[t] = "convert"
    /\ th_frame[Frame(t)].pos < Len(th_frame[Frame(t)].normalized_preeti)
    /\ th_frame' = [th_frame EXCEPT ![Frame(t)] =
                       [@ EXCEPT !.converted =
                                     @ \o ConvertChar(converter,
                                              At(th_frame[Frame(t)].normalized_preeti,
                                                 th_frame[Frame(t)].pos)),
                                 !.pos = @ + 1]]
    /\ th_overlap' = (th_overlap \/ OthersRunning(t))
    /\ UNCHANGED << th_pc, th_args, th_result >>
    /\ UNCHANGED thOthers

\* convert_to_unicode returns converted; convert_text: with convert_numbers
\* convert_numbers_to_nepali is entered, without it unicode_text is returned
ThConvertReturn(t) ==
    /\ th_pc[t] = "convert"
    /\ ~(th_frame[Frame(t)].pos < Len(th_frame[Frame(t)].normalized_preeti))
    /\ th_frame' = [th_frame EXCEPT ![Frame(t)] =
                       [@ EXCEPT !.unicode_text = th_frame[Frame(t)].converted,
                                 !.pos = 0,
                                 !.result = << >>]]
    /\ IF th_frame[Frame(t)].convert_numbers
       THEN /\ th_pc' = [th_pc EXCEPT ![t] = "numbers"]
            /\ UNCHANGED th_result
       ELSE /\ th_pc' = [th_pc EXCEPT ![t] = "done"]
            /\ th_result' = [th_result EXCEPT ![t] = th_frame[Frame(t)].converted]
    /\ th_overlap' = (th_overlap \/ OthersRunning(t))
    /\ UNCHANGED th_args
    /\ UNCHANGED thOthers

\* convert_numbers_to_nepali: one iteration of the for loop, which reads
\* nepali_numerals of the shared converter
ThNumeralChar(t) ==
    /\ th_pc[t] = "numbers"
    /\ th_frame[Frame(t)].pos < Len(th_frame[Frame(t)].unicode_text)
    /\ th_frame' = [th_frame EXCEPT ![Frame(t)] =
                       [@ EXCEPT !.result =
                                     @ \o NumeralChar(converter,
                                              At(th_frame[Frame(t)].unicode_text,
                                                 th_frame[Frame(t)].pos)),
                                 !.pos = @ + 1]]
    /\ th_overlap' = (th_overlap \/ OthersRunning(t))
    /\ UNCHANGED << th_pc, th_args, th_result >>
    /\ UNCHANGED thOthers

\* convert_numbers_to_nepali returns result, which convert_text returns
ThNumbersReturn(t) ==
    /\ th_pc[t] = "numbers"
    /\ ~(th_frame[Frame(t)].pos < Len(th_frame[Frame(t)].unicode_text))
    /\ th_result' = [th_result EXCEPT ![t] = th_frame[Frame(t)].result]
    /\ th_pc' = [th_pc EXCEPT ![t] = "done"]
    /\ th_overlap' = (th_overlap \/ OthersRunning(t))
    /\ UNCHANGED << th_args, th_frame >>
    /\ UNCHANGED thOthers

InitConc == ThInit /\ CvIdle /\ ScanIdle /\ RegIdle /\ DetectIdle /\ PipeIdle

NextConc ==
    \E t \in Threads :
        \/ ThCall(t)
        \/ ThReplace(t)
        \/ ThNormalizeStep(t)
        \/ ThNormalizeReturn(t)
        \/ ThConvertChar(t)
        \/ ThConvertReturn(t)
        \/ ThNumeralChar(t)
        \/ ThNumbersReturn(t)

SpecConc == InitConc /\ [][NextConc]_vars

\* =====================================================================
\* Claims checked under SpecConc
\* =====================================================================
\* C8: under every interleaving of the steps of concurrent convert_text
\* calls, a call that has returned has returned what the same call returns
\* when it runs alone, and the converter's tables are what they were built
\* as.
C8_NoInterference ==
    /\ converter = PreetiUnicodeConverter
    /\ \A t \in Threads :
          th_pc[t] = "done" =>
              th_result[t] = convert_text(PreetiUnicodeConverter, th_args[t].text,
                                          th_args[t].convert_numbers)

\* Two calls on different texts whose steps were interleaved have both
\* returned, with different results.
C8_Witness ==
    /\ th_overlap
    /\ th_pc[1] = "done"
    /\ th_pc[2] = "done"
    /\ th_args[1].text = <<108, 107>>
    /\ th_args[2].text = <<33, 49>>
    /\ th_result[1] = <<2346, 2367>>
    /\ th_result[1] # th_result[2]

\* =====================================================================
\* SpecDetect: detect_variant is called on a text and a font name, and the
\* name it returns is looked up in the registry of the built-in variants
\* =====================================================================
\* The longest sample text
MaxDetLen == 3

\* The elements of a sequence
Range(s) == {s[i] : i \in 1..Len(s)}

\* sub in s
Contains(s, sub) ==
    \E i \in 0..(Len(s) - Len(sub)) : Slice(s, i, i + Len(sub)) = sub

\* str.lower() that leaves every character as it is.
lowerNone(s) == s

\* str.lower() on ASCII and Latin-1 letters
lower(s) ==
    [i \in 1..Len(s) |->
        IF \/ (65 <= s[i] /\ s[i] <= 90)
           \/ (192 <= s[i] /\ s[i] <= 222 /\ s[i] # 215)
        THEN s[i] + 32 ELSE s[i]]

\* PreetiVariantDetector._variant_patterns
variant_patterns ==
    [ preeti_plus |-> <<231, 233, 241, 243, 250, 252>>,
      kantipur    |-> <<199, 201, 209, 211, 218, 220>> ]

\* sum(1 for char in patterns if char in text)
PatternScore(patterns, text) ==
    Cardinality({i \in 1..Len(patterns) : patterns[i] \in Range(text)})

\* 'plus' and 'kantipur'
PlusMarker == <<112, 108, 117, 115>>
KantipurMarker == <<107, 97, 110, 116, 105, 112, 117, 114>>

\* PreetiVariantDetector.detect_variant; a text or font name of None or ''
\* is << >>
detect_variant(text, font_name) ==
    LET font_name_lower == lower(font_name)
        plus_score == PatternScore(variant_patterns.preeti_plus, text)
        kantipur_score == PatternScore(variant_patterns.kantipur, text)
    IN  IF font_name # << >> /\ Contains(font_name_lower, PlusMarker)
        THEN "preeti_plus"
        ELSE IF font_name # << >> /\ Contains(font_name_lower, KantipurMarker)
        THEN "kantipur"
        ELSE IF text # << >> /\ plus_score > kantipur_score /\ plus_score > 0
        THEN "preeti_plus"
        ELSE IF text # << >> /\ kantipur_score > 0
        THEN "kantipur"
        ELSE "standard"

\* FontRegistry.get_font_mapping(name) on the registry of the built-in
\* variants: the mapping registered under name, or None
get_font_mapping(name) ==
    IF name \in DOMAIN BuiltinRegistry.mgr.mappings
    THEN [ found |-> TRUE,
           name |-> BuiltinRegistry.mgr.mappings[name].name,
           rules |-> BuiltinRegistry.heap[BuiltinRegistry.mgr.mappings[name].rules] ]
    ELSE [ found |-> FALSE, name |-> "", rules |-> << >> ]

\* The font names: none, 'Preeti', 'Preeti Plus', 'PREETI PLUS', 'Kantipur',
\* 'KANTIPUR', 'Kantipur Plus'
DetNames ==
    { << >>,
      <<80, 114, 101, 101, 116, 105>>,
      <<80, 114, 101, 101, 116, 105, 32, 80, 108, 117, 115>>,
      <<80, 82, 69, 69, 84, 73, 32, 80, 76, 85, 83>>,
      <<75, 97, 110, 116, 105, 112, 117, 114>>,
      <<75, 65, 78, 84, 73, 80, 85, 82>>,
      <<75, 97, 110, 116, 105, 112, 117, 114, 32, 80, 108, 117, 115>> }

\* The characters of the sample texts: two Preeti Plus markers, two
\* Kantipur markers and 'a'
DetAlphabet == {231, 233, 199, 201, 97}

DetTexts == UNION {[1..k -> DetAlphabet] : k \in 0..MaxDetLen}

DetInit ==
    /\ dt_text \in DetTexts
    /\ dt_font_name \in DetNames
    /\ dt_pc = "start"
    /\ dt_variant = ""
    /\ dt_mapping = [found |-> FALSE, name |-> "", rules |-> << >>]

\* variant = detector.detect_variant(text, font_name)
DtDetect ==
    /\ dt_pc = "start"
    /\ dt_variant' = detect_variant(dt_text, dt_font_name)
    /\ dt_pc' = "detected"
    /\ UNCHANGED << dt_text, dt_font_name, dt_mapping >>
    /\ UNCHANGED dtOthers

\* mapping = get_font_mapping(variant)
DtLookup ==
    /\ dt_pc = "detected"
    /\ dt_mapping' = get_font_mapping(dt_variant)
    /\ dt_pc' = "looked_up"
    /\ UNCHANGED << dt_text, dt_font_name, dt_variant >>
    /\ UNCHANGED dtOthers

InitDetect == DetInit /\ CvIdle /\ ScanIdle /\ RegIdle /\ ThreadsIdle /\ PipeIdle

NextDetect ==
    \/ DtDetect
    \/ DtLookup

SpecDetect == InitDetect /\ [][NextDetect]_vars

\* =====================================================================
\* Claims checked under SpecDetect
\* =====================================================================
Detected == dt_pc \in {"detected", "looked_up"}

\* The font name holds the marker in some letter case
NameHas(marker) ==
    \E i \in 0..(Len(dt_font_name) - Len(marker)) :
        \A k \in 1..Len(marker) :
            dt_font_name[i + k] \in {marker[k], marker[k] - 32}

NoNameSignal == ~NameHas(PlusMarker) /\ ~NameHas(KantipurMarker)

\* How many characters of the text are among the markers
Occurrences(patterns, text) ==
    Cardinality({i \in 1..Len(text) : text[i] \in Range(patterns)})

\* C12 as stated: a font name that holds 'plus' gives preeti_plus and a font
\* name that holds 'kantipur' gives kantipur, whatever the text.
C12_NameMarkerDecides ==
    Detected =>
        /\ NameHas(PlusMarker) => dt_variant = "preeti_plus"
        /\ NameHas(KantipurMarker) => dt_variant = "kantipur"

\* C12: a font name that holds 'plus' in any letter case gives preeti_plus,
\* and one that holds 'kantipur' and not 'plus' gives kantipur, whatever
\* the text.
C12_NameFirst ==
    Detected =>
        /\ NameHas(PlusMarker) => dt_variant = "preeti_plus"
        /\ (NameHas(KantipurMarker) /\ ~NameHas(PlusMarker)) => dt_variant = "kantipur"

\* The name KANTIPUR with a text of Preeti Plus markers only gives kantipur.
C12_Witness ==
    /\ Detected
    /\ dt_font_name = <<75, 65, 78, 84, 73, 80, 85, 82>>
    /\ dt_text = <<231, 233>>
    /\ dt_variant = "kantipur"

\* C13: with no signal in the font name, the variant whose markers occur
\* more often in the text, counting every occurrence, is returned.
C13_ScoreByOccurrences ==
    (Detected /\ NoNameSignal) =>
        LET plus == Occurrences(variant_patterns.preeti_plus, dt_text)
            kantipur == Occurrences(variant_patterns.kantipur, dt_text)
        IN  /\ plus > kantipur => dt_variant = "preeti_plus"
            /\ kantipur > plus => dt_variant = "kantipur"

\* C14: with no signal in the font name and the two scores equal, the
\* Standard variant is returned.
C14_TieGivesDefault ==
    ( /\ Detected
      /\ NoNameSignal
      /\ Occurrences(variant_patterns.preeti_plus, dt_text)
             = Occurrences(variant_patterns.kantipur, dt_text)
      /\ PatternScore(variant_patterns.preeti_plus, dt_text)
             = PatternScore(variant_patterns.kantipur, dt_text) )
    => dt_variant \in {"standard", "standard_preeti"}

\* C15: with no signal in the font name or in the text, the name returned
\* is the registry's default name, and looking it up gives the Standard
\* mapping.
C15_DefaultIsRegistered ==
    ( /\ dt_pc = "looked_up"
      /\ NoNameSignal
      /\ Occurrences(variant_patterns.preeti_plus, dt_text) = 0
      /\ Occurrences(variant_patterns.kantipur, dt_text) = 0 )
    => /\ dt_variant = BuiltinRegistry.mgr.default_mapping
       /\ dt_mapping.found
       /\ dt_mapping.rules = StandardRules

\* =====================================================================
\* SpecPipe: a ProcessingPipeline with its stages; global middleware is
\* added to it and execute is called on it, one call after the other
\* =====================================================================
\* The number of stages of the pipeline
NStages == 2
\* The number of middleware objects there are to add
MaxMiddleware == 2
\* The number of execute calls made on the pipeline
MaxRuns == 2

Stages == 1..NStages

Middleware == 1..MaxMiddleware

\* No call of any middleware by any stage
NoCalls == [s \in Stages |-> [m \in Middleware |-> 0]]

\* ProcessingPipeline(name, stages): no global middleware, and stages that
\* were made without middleware of their own
PipeInit ==
    /\ pl_global_middleware = << >>
    /\ pl_stage_middleware = [s \in Stages |-> << >>]
    /\ pl_pc = "idle"
    /\ pl_stop_on_error = TRUE
    /\ pl_i = 0
    /\ pl_k = 0
    /\ pl_results = << >>
    /\ pl_before = NoCalls
    /\ pl_after = NoCalls
    /\ pl_runs = 0

\* ProcessingPipeline.add_global_middleware(middleware), with a middleware
\* the pipeline does not hold yet
PlAddGlobalMiddleware ==
    /\ pl_pc = "idle"
    /\ \E m \in Middleware :
          /\ \A j \in 1..Len(pl_global_middleware) : pl_global_middleware[j] # m
          /\ pl_global_middleware' = Append(pl_global_middleware, m)
    /\ UNCHANGED << pl_stage_middleware, pl_pc, pl_stop_on_error, pl_i, pl_k,
                    pl_results, pl_before, pl_after, pl_runs >>
    /\ UNCHANGED plOthers

\* ProcessingPipeline.execute is called (timeout_seconds left at None):
\* results = [], and the for loop starts at the first stage
PlExecute ==
    /\ pl_pc = "idle"
    /\ pl_runs < MaxRuns
    /\ pl_stop_on_error' \in BOOLEAN
    /\ pl_results' = << >>
    /\ pl_i' = 1
    /\ pl_k' = 0
    /\ pl_before' = NoCalls
    /\ pl_after' = NoCalls
    /\ pl_runs' = pl_runs + 1
    /\ pl_pc' = "loop"
    /\ UNCHANGED << pl_global_middleware, pl_stage_middleware >>
    /\ UNCHANGED plOthers

\* The for loop of execute takes the next stage: every global middleware
\* is handed to stage.add_middleware, which appends it to the stage's list,
\* and stage.execute is entered
PlAttach ==
    /\ pl_pc = "loop"
    /\ pl_i <= NStages
    /\ pl_stage_middleware' =
          [pl_stage_middleware EXCEPT ![pl_i] = @ \o pl_global_middleware]
    /\ pl_k' = 1
    /\ pl_pc' = "before"
    /\ UNCHANGED << pl_global_middleware, pl_stop_on_error, pl_i, pl_results,
                    pl_before, pl_after, pl_runs >>
    /\ UNCHANGED plOthers

\* PipelineStage.execute: middleware.process_before for the next entry of
\* the stage's list
PlProcessBefore ==
    /\ pl_pc = "before"
    /\ pl_k <= Len(pl_stage_middleware[pl_i])
    /\ pl_before' = [pl_before EXCEPT ![pl_i][pl_stage_middleware[pl_i][pl_k]] = @ + 1]
    /\ pl_k' = pl_k + 1
    /\ UNCHANGED << pl_global_middleware, pl_stage_middleware, pl_pc, pl_stop_on_error,
                    pl_i, pl_results, pl_after, pl_runs >>
    /\ UNCHANGED plOthers

\* PipelineStage.execute: _execute_impl returns; the after loop starts at
\* the last entry of the stage's list
PlExecuteImpl ==
    /\ pl_pc = "before"
    /\ pl_k > Len(pl_stage_middleware[pl_i])
    /\ pl_k' = Len(pl_stage_middleware[pl_i])
    /\ pl_pc' = "after"
    /\ UNCHANGED << pl_global_middleware, pl_stage_middleware, pl_stop_on_error, pl_i,
                    pl_results, pl_before, pl_after, pl_runs >>
    /\ UNCHANGED plOthers

\* PipelineStage.execute: _execute_impl raises; the stage returns a FAILED
\* result, and the pipeline leaves the loop or goes on to the next stage
PlExecuteImplRaises ==
    /\ pl_pc = "before"
    /\ pl_k > Len(pl_stage_middleware[pl_i])
    /\ pl_results' = Append(pl_results, [stage |-> pl_i, status |-> "failed"])
    /\ IF pl_stop_on_error
       THEN pl_pc' = "return" /\ pl_i' = pl_i
       ELSE pl_pc' = "loop" /\ pl_i' = pl_i + 1
    /\ pl_k' = 0
    /\ UNCHANGED << pl_global_middleware, pl_stage_middleware, pl_stop_on_error,
                    pl_before, pl_after, pl_runs >>
    /\ UNCHANGED plOthers

\* PipelineStage.execute: middleware.process_after for the next entry of
\* the reversed list
PlProcessAfter ==
    /\ pl_pc = "after"
    /\ pl_k >= 1
    /\ pl_after' = [pl_after EXCEPT ![pl_i][pl_stage_middleware[pl_i][pl_k]] = @ + 1]
    /\ pl_k' = pl_k - 1
    /\ UNCHANGED << pl_global_middleware, pl_stage_middleware, pl_pc, pl_stop_on_error,
                    pl_i, pl_results, pl_before, pl_runs >>
    /\ UNCHANGED plOthers

\* PipelineStage.execute returns a COMPLETED result; the pipeline appends
\* it and goes on to the next stage
PlStageCompleted ==
    /\ pl_pc = "after"
    /\ pl_k = 0
    /\ pl_results' = Append(pl_results, [stage |-> pl_i, status |-> "completed"])
    /\ pl_i' = pl_i + 1
    /\ pl_pc' = "loop"
    /\ UNCHANGED << pl_global_middleware, pl_stage_middleware, pl_stop_on_error, pl_k,
                    pl_before, pl_after, pl_runs >>
    /\ UNCHANGED plOthers

\* The for loop is over or was left by break: execute returns
PlReturn ==
    /\ \/ pl_pc = "loop" /\ pl_i > NStages
       \/ pl_pc = "return"
    /\ pl_pc' = "idle"
    /\ UNCHANGED << pl_global_middleware, pl_stage_middleware, pl_stop_on_error, pl_i,
                    pl_k, pl_results, pl_before, pl_after, pl_runs >>
    /\ UNCHANGED plOthers

InitPipe == PipeInit /\ CvIdle /\ ScanIdle /\ RegIdle /\ ThreadsIdle /\ DetectIdle

NextPipe ==
    \/ PlAddGlobalMiddleware
    \/ PlExecute
    \/ PlAttach
    \/ PlProcessBefore
    \/ PlExecuteImpl
    \/ PlExecuteImplRaises
    \/ PlProcessAfter
    \/ PlStageCompleted
    \/ PlReturn

SpecPipe == InitPipe /\ [][NextPipe]_vars

\* =====================================================================
\* Claims checked under SpecPipe
\* =====================================================================
\* C30: in every execute call, the first and the later ones alike, each
\* stage that completes has called process_before once and process_after
\* once on each global middleware, and no stage holds more middleware than
\* the pipeline has global middleware.
C30_OncePerStagePerRun ==
    /\ pl_pc # "idle" =>
          \A r \in 1..Len(pl_results) :
              pl_results[r].status = "completed" =>
                  \A j \in 1..Len(pl_global_middleware) :
                      /\ pl_before[pl_results[r].stage][pl_global_middleware[j]] = 1
                      /\ pl_after[pl_results[r].stage][pl_global_middleware[j]] = 1
    /\ \A s \in DOMAIN pl_stage_middleware :
          Len(pl_stage_middleware[s]) <= Len(pl_global_middleware)

====
